---- MODULE Spec2Model ----
(***************************************************************************)
(* Model of the appointment backend (src/main.py, src/schemas.py): the     *)
(* request (lead) life cycle with its status history, the onboarding       *)
(* content generator, and the rule-based assistant.                        *)
(*                                                                         *)
(* Texts built by f-strings are sequences of fragments (the literal parts  *)
(* and the substituted values); "k in text.lower()" is decided fragment by *)
(* fragment through Lower and Occurs.  ObjectIds are naturals, rendered to *)
(* callers as fixed-width hex strings (sequences of characters).           *)
(***************************************************************************)
EXTENDS Naturals, Sequences

VARIABLES
    request,      \* collection "request", in insertion order
    request_log,  \* collection "request_log", in insertion order
    business,     \* collection "business", in insertion order
    now,          \* the server clock read by datetime.now(timezone.utc);
                  \* it has moved on by the time of the next store write
    resp,         \* the last completed call: operation, inputs, HTTP code, body
    pc,           \* concurrent update_status calls: position of each call
    call          \* concurrent update_status calls: arguments and locals

vars == <<request, request_log, business, now, resp, pc, call>>

-----------------------------------------------------------------------------
(* Bounds *)

\* documents the store holds at most, all collections together
MaxDocs == 3

\* hex digits of a rendered ObjectId
IdWidth == 2

-----------------------------------------------------------------------------
(* Values *)

None == "<null>"

Truthy(v) == v # None /\ v # ""

LegalStatuses == {"Nouveau", "Confirmé", "Annulé"}

StatusInputs == LegalStatuses \cup {"Terminé"}

\* pydantic EmailStr validation
IsEmail(e) == e = "tom@x.com"

-----------------------------------------------------------------------------
(* ObjectId: str(oid) and ObjectId(s) *)

HexChars == <<"0", "1", "2", "3", "4", "5", "6", "7",
              "8", "9", "a", "b", "c", "d", "e", "f">>

RECURSIVE Pow16(_)
Pow16(n) == IF n = 0 THEN 1 ELSE 16 * Pow16(n - 1)

\* str(oid): IdWidth hex digits, most significant first
ObjectIdStr(oid) ==
    [i \in 1..IdWidth |-> HexChars[((oid \div Pow16(IdWidth - i)) % 16) + 1]]

IsHex(c) == \E d \in 1..16 : HexChars[d] = c

HexValue(c) == (CHOOSE d \in 1..16 : HexChars[d] = c) - 1

RECURSIVE HexNumber(_)
HexNumber(s) ==
    IF s = <<>> THEN 0
    ELSE 16 * HexNumber(SubSeq(s, 1, Len(s) - 1)) + HexValue(s[Len(s)])

InvalidId == 0

\* ObjectId(s): raises InvalidId unless s is IdWidth hex digits
ParseObjectId(s) ==
    IF Len(s) = IdWidth /\ \A i \in 1..Len(s) : IsHex(s[i])
    THEN HexNumber(s)
    ELSE InvalidId

\* the store's id generator: ids grow with every insert into a collection
NextOid(docs) == Len(docs) + 1

\* id strings a caller may send: the ids handed out so far, the next one
\* (which no request has yet), and malformed ones
IdInputs ==
    {ObjectIdStr(n) : n \in 1..NextOid(request)}
        \cup {[i \in 1..IdWidth |-> "z"], [i \in 1..(IdWidth - 1) |-> "1"]}

-----------------------------------------------------------------------------
(* datetime values: <<t>> is an instant, <<>> is None *)

NoTime == <<>>

DateTime(t) == <<t>>

IsDateTime(v) == Len(v) = 1

IsoFormat(v) == <<"iso", v[1]>>

\* a creation time sent by a caller, far from the server clock
ClientTime == DateTime(1000)

-----------------------------------------------------------------------------
(* The document store *)

StoreFull == Len(request) + Len(request_log) + Len(business) >= MaxDocs

\* create_document(collection, data): insert under a fresh id
InsertOne(docs, data) == Append(docs, [data EXCEPT !._id = NextOid(docs)])

\* the string create_document returns for that insert
create_document(docs) == ObjectIdStr(NextOid(docs))

\* find_one({"_id": oid}): index of the match, 0 when absent
FindOne(docs, oid) ==
    IF \E i \in 1..Len(docs) : docs[i]._id = oid
    THEN CHOOSE i \in 1..Len(docs) : docs[i]._id = oid
    ELSE 0

\* update_one(...).matched_count
MatchedCount(docs, oid) == IF FindOne(docs, oid) = 0 THEN 0 ELSE 1

\* a $set that stamps updated_at and forgets the status
UpdateOneKeepStatus(docs, oid, s, t) ==
    [i \in 1..Len(docs) |->
        IF docs[i]._id = oid
        THEN [docs[i] EXCEPT !.updated_at = DateTime(t)]
        ELSE docs[i]]

\* an update filtered on the status being "Nouveau": the first writer wins
UpdateOneIfNew(docs, oid, s, t) ==
    [i \in 1..Len(docs) |->
        IF docs[i]._id = oid /\ docs[i].status = "Nouveau"
        THEN [docs[i] EXCEPT !.status = s, !.updated_at = DateTime(t)]
        ELSE docs[i]]

\* update_one({"_id": oid}, {"$set": {"status": s, "updated_at": t}})
UpdateOne(docs, oid, s, t) ==
    [i \in 1..Len(docs) |->
        IF docs[i]._id = oid
        THEN [docs[i] EXCEPT !.status = s, !.updated_at = DateTime(t)]
        ELSE docs[i]]

\* a retry that writes the history entry a second time
InsertLogTwice(logs, oid, s, t) ==
    LET e == [_id |-> NextOid(logs), request_id |-> oid,
              status |-> s, timestamp |-> DateTime(t)]
    IN Append(Append(logs, e), [e EXCEPT !._id = NextOid(logs) + 1])

\* request_log.insert_one({"request_id", "status", "timestamp"})
InsertLog(logs, oid, s, t) ==
    Append(logs, [_id |-> NextOid(logs), request_id |-> oid,
                  status |-> s, timestamp |-> DateTime(t)])

\* to_public on a request document
to_public(doc) ==
    [id |-> ObjectIdStr(doc._id),
     name |-> doc.name, email |-> doc.email, phone |-> doc.phone,
     service_id |-> doc.service_id, message |-> doc.message,
     status |-> doc.status,
     created_at |-> IF IsDateTime(doc.created_at)
                    THEN IsoFormat(doc.created_at) ELSE doc.created_at,
     updated_at |-> IF IsDateTime(doc.updated_at)
                    THEN IsoFormat(doc.updated_at) ELSE doc.updated_at]

\* get_request(req_id): the HTTP code and the body
get_request(docs, req_id) ==
    LET oid == ParseObjectId(req_id) IN
    IF oid = InvalidId THEN [code |-> 500, found |-> FALSE, doc |-> <<>>]
    ELSE IF FindOne(docs, oid) = 0 THEN [code |-> 404, found |-> FALSE, doc |-> <<>>]
    ELSE [code |-> 200, found |-> TRUE, doc |-> <<to_public(docs[FindOne(docs, oid)])>>]

\* get_history(req_id): the entries of one request, in insertion order
get_history(logs, oid) == SelectSeq(logs, LAMBDA l : l.request_id = oid)

-----------------------------------------------------------------------------
(* Request life cycle, one call at a time *)

\* the Request schema: model_dump() of a validated payload
RequestSchema(name, email, phone, service_id, message, status, created_at) ==
    [_id |-> 0, name |-> name, email |-> email, phone |-> phone,
     service_id |-> service_id, message |-> message, status |-> status,
     created_at |-> created_at, updated_at |-> NoTime]

Response(op, code, in, out) == [op |-> op, code |-> code, in |-> in, out |-> out]

\* POST /api/requests
create_request(status, created_at, email) ==
    LET in == [status |-> status, created_at |-> created_at, email |-> email] IN
    IF ~IsEmail(email)
    THEN /\ resp' = Response("createRequest", 422, in, [id |-> <<>>])
         /\ UNCHANGED <<request, now>>
    ELSE LET payload == RequestSchema("Tom", email, "0600000000", None, None,
                                      status, created_at)
             data == [payload EXCEPT !.created_at = DateTime(now)]
         IN /\ ~StoreFull
            /\ request' = InsertOne(request, data)
            /\ now' = now + 1
            /\ resp' = Response("createRequest", 200, in,
                                [id |-> create_document(request)])

CreateRequest ==
    /\ \E status \in StatusInputs, created_at \in {NoTime, ClientTime},
          email \in {"tom@x.com", "pas-un-email"} :
            create_request(status, created_at, email)
    /\ UNCHANGED <<request_log, business, pc, call>>

\* a lead arriving while status updates are in flight
CreateLead ==
    /\ create_request("Nouveau", NoTime, "tom@x.com")
    /\ UNCHANGED <<request_log, business, pc, call>>

\* the status check of update_status
StatusAccepted(s) == s \in {"Nouveau", "Confirmé", "Annulé"}

\* POST /api/requests/{req_id}/status
\* (the confirmation lookup and print after a "Confirmé" write nothing and
\* swallow their failures)
update_status(req_id, s) ==
    LET in == [id |-> req_id, status |-> s]
        oid == ParseObjectId(req_id)
    IN
    IF ~StatusAccepted(s)
    THEN /\ resp' = Response("setStatus", 400, in, [ok |-> FALSE])
         /\ UNCHANGED <<request, request_log, now>>
    ELSE IF oid = InvalidId
    THEN /\ resp' = Response("setStatus", 500, in, [ok |-> FALSE])
         /\ UNCHANGED <<request, request_log, now>>
    ELSE IF MatchedCount(request, oid) = 0
    THEN /\ resp' = Response("setStatus", 404, in, [ok |-> FALSE])
         /\ UNCHANGED <<request, request_log, now>>
    ELSE /\ ~StoreFull
         /\ request' = UpdateOne(request, oid, s, now)
         /\ request_log' = InsertLog(request_log, oid, s, now + 1)
         /\ now' = now + 2
         /\ resp' = Response("setStatus", 200, in, [ok |-> TRUE])

SetStatus ==
    /\ \E req_id \in IdInputs, s \in StatusInputs : update_status(req_id, s)
    /\ UNCHANGED <<business, pc, call>>

-----------------------------------------------------------------------------
(* update_status calls running concurrently: each store round trip is a step *)

\* the two calls in flight
Calls == {"A", "B"}

NoCall == [id |-> <<>>, status |-> None, code |-> 0, updated_at |-> NoTime]

\* the call arrives; the status check runs before any store access
Begin(c) ==
    /\ pc[c] = "idle"
    /\ \E req_id \in IdInputs, s \in StatusInputs :
         IF ~StatusAccepted(s)
         THEN /\ call' = [call EXCEPT ![c] = [NoCall EXCEPT !.id = req_id, !.status = s,
                                                             !.code = 400]]
              /\ pc' = [pc EXCEPT ![c] = "done"]
         ELSE /\ call' = [call EXCEPT ![c] = [NoCall EXCEPT !.id = req_id, !.status = s]]
              /\ pc' = [pc EXCEPT ![c] = "update"]
    /\ UNCHANGED <<request, request_log, business, now, resp>>

\* db["request"].update_one and the matched_count test
Update(c) ==
    /\ pc[c] = "update"
    /\ LET oid == ParseObjectId(call[c].id) IN
       IF oid = InvalidId
       THEN /\ call' = [call EXCEPT ![c].code = 500]
            /\ pc' = [pc EXCEPT ![c] = "done"]
            /\ UNCHANGED <<request, now>>
       ELSE IF MatchedCount(request, oid) = 0
       THEN /\ call' = [call EXCEPT ![c].code = 404]
            /\ pc' = [pc EXCEPT ![c] = "done"]
            /\ UNCHANGED <<request, now>>
       ELSE /\ request' = UpdateOne(request, oid, call[c].status, now)
            /\ now' = now + 1
            /\ pc' = [pc EXCEPT ![c] = "insert"]
            /\ call' = [call EXCEPT ![c].updated_at = DateTime(now)]
    /\ UNCHANGED <<request_log, business, resp>>

\* db["request_log"].insert_one, then the response
Insert(c) ==
    /\ pc[c] = "insert"
    /\ request_log' = InsertLog(request_log, ParseObjectId(call[c].id),
                                call[c].status, now)
    /\ now' = now + 1
    /\ call' = [call EXCEPT ![c].code = 200]
    /\ pc' = [pc EXCEPT ![c] = "done"]
    /\ UNCHANGED <<request, business, resp>>

-----------------------------------------------------------------------------
(* Texts: str.lower() and the substring test "k in s" *)

\* s.lower(), on the strings the model uses
Lower(s) ==
    CASE s = "Quels sont vos HORAIRES ?" -> "quels sont vos horaires ?"
      [] s = "Quels sont vos horaires ?" -> "quels sont vos horaires ?"
      [] s = "Où êtes-vous situé ?" -> "où êtes-vous situé ?"
      [] s = "Quels services proposez-vous ?" -> "quels services proposez-vous ?"
      [] s = "Quels sont les tarifs ?" -> "quels sont les tarifs ?"
      [] s = "Selon la situation" -> "selon la situation"
      [] s = "Lun-Ven 9h-18h" -> "lun-ven 9h-18h"
      [] s = "Lyon" -> "lyon"
      [] s = "Paris" -> "paris"
      [] s = "Claire" -> "claire"
      [] s = "Coupe" -> "coupe"
      [] s = "Couleur" -> "couleur"
      [] s = "Consultation" -> "consultation"
      [] s = "Accompagnement" -> "accompagnement"
      [] s = "Séance" -> "séance"
      [] s = "Votre métier" -> "votre métier"
      [] s = ". N'hésitez pas à nous écrire pour un créneau spécifique."
           -> ". n'hésitez pas à nous écrire pour un créneau spécifique."
      [] s = "Nous sommes à " -> "nous sommes à "
      [] s = ". L'adresse exacte sera confirmée lors de la prise de rendez-vous."
           -> ". l'adresse exacte sera confirmée lors de la prise de rendez-vous."
      [] s = "Nos tarifs sont indiqués pour chaque service et confirmés par email."
           -> "nos tarifs sont indiqués pour chaque service et confirmés par email."
      [] OTHER -> s

\* the needles the assistant looks for that occur in the string s as written
\* (the test is case-sensitive)
Occurs(s) ==
    CASE s = "quels sont vos horaires ?" -> {"horaire"}
      [] s = "horaires, tarif, adresse et services ?"
           -> {"horaire", "tarif", "adresse", "service"}
      [] s = "tarif et adresse ?" -> {"tarif", "adresse"}
      [] s = "où êtes-vous ?" -> {"où"}
      [] s = "où êtes-vous situé ?" -> {"où", "situ"}
      [] s = "votre adresse et vos services ?" -> {"adresse", "service"}
      [] s = "quels services ?" -> {"service"}
      [] s = "quels services proposez-vous ?" -> {"service"}
      [] s = "quels sont les tarifs ?" -> {"tarif"}
      [] s = "selon la situation" -> {"situ"}
      [] s = ". l'adresse exacte sera confirmée lors de la prise de rendez-vous."
           -> {"adresse"}
      [] s = "nos tarifs sont indiqués pour chaque service et confirmés par email."
           -> {"tarif", "service"}
      [] OTHER -> {}

\* text.lower() of a text made of fragments
LowerText(text) == [i \in 1..Len(text) |-> Lower(text[i])]

\* k in text
In(k, text) == \E i \in 1..Len(text) : k \in Occurs(text[i])

\* any(k in text for k in keys)
AnyIn(keys, text) == \E k \in keys : In(k, text)

\* sep.join(items), as fragments
RECURSIVE Join(_, _)
Join(items, sep) ==
    IF Len(items) = 0 THEN <<>>
    ELSE IF Len(items) = 1 THEN <<items[1]>>
    ELSE <<items[1], sep>> \o Join(Tail(items), sep)

-----------------------------------------------------------------------------
(* Content generators *)

generate_intro(nom, metier, localisation) ==
    <<nom, ", ", metier, " à ", localisation,
      ". Prenez rendez-vous facilement : nous répondons vite et organisons tout pour vous. Des prestations de qualité avec un accueil soigné.">>

generate_service_descriptions(services) ==
    [i \in 1..Len(services) |->
        [title |-> services[i],
         description |-> <<"Prestations ", Lower(services[i]),
                           " réalisées avec soin. Conseils personnalisés, durée adaptée, et devis transparent.">>]]

\* (the dash of the third answer is written "-" here)
generate_faq(nom, metier, localisation, horaires) ==
    << [q |-> "Quels sont vos horaires ?",
        a |-> <<horaires, ". N'hésitez pas à nous écrire pour un créneau spécifique.">>],
       [q |-> "Où êtes-vous situé ?",
        a |-> <<"Nous sommes à ", localisation,
                ". L'adresse exacte sera confirmée lors de la prise de rendez-vous.">>],
       [q |-> "Quels services proposez-vous ?",
        a |-> <<metier, " - nous proposons des formules adaptées et des prestations sur mesure.">>],
       [q |-> "Quels sont les tarifs ?",
        a |-> <<"Nos tarifs sont indiqués pour chaque service et confirmés par email.">>] >>

generate_assistant_responses(metier) ==
    << <<"Bonjour ! Comment puis-je vous aider aujourd'hui ?">>,
       <<"Vous cherchez un ", metier, "? Je peux vous guider et réserver un créneau.">>,
       <<"Pour confirmer une demande, partagez votre nom, email et téléphone.">> >>

-----------------------------------------------------------------------------
(* Onboarding and content retrieval *)

\* the Business schema
Business(nom, metier, localisation, services, horaires) ==
    [_id |-> 0,
     owner_name |-> nom,
     metier |-> metier,
     localisation |-> localisation,
     services |-> services,
     horaires |-> horaires,
     intro_paragraph |-> generate_intro(nom, metier, localisation),
     faq |-> generate_faq(nom, metier, localisation, horaires),
     service_descriptions |-> generate_service_descriptions(services),
     assistant_responses |-> generate_assistant_responses(metier)]

\* POST /api/onboarding
onboarding(nom, metier, localisation, services, horaires) ==
    LET biz == Business(nom, metier, localisation, services, horaires) IN
    /\ ~StoreFull
    /\ business' = InsertOne(business, biz)
    /\ resp' = Response("onboard", 200,
                        [nom |-> nom, metier |-> metier, localisation |-> localisation,
                         services |-> services, horaires |-> horaires],
                        [id |-> create_document(business),
                         intro |-> biz.intro_paragraph,
                         faq |-> biz.faq,
                         services |-> biz.service_descriptions,
                         assistant |-> biz.assistant_responses])

Onboarding ==
    /\ \E localisation \in {"Lyon", "Paris"},
          horaires \in {"Lun-Ven 9h-18h", "Selon la situation"} :
            onboarding("Claire", "coiffeuse", localisation, <<"Coupe", "Couleur">>, horaires)
    /\ UNCHANGED <<request, request_log, now, pc, call>>

\* the sort direction reversed: the document with the smallest id
FindOldest(docs) ==
    IF docs = <<>> THEN 0
    ELSE CHOOSE i \in 1..Len(docs) : \A j \in 1..Len(docs) : docs[i]._id <= docs[j]._id

\* find_one(sort=[("_id", -1)]): index of the document with the largest id, 0 if none
FindLatest(docs) ==
    IF docs = <<>> THEN 0
    ELSE CHOOSE i \in 1..Len(docs) : \A j \in 1..Len(docs) : docs[j]._id <= docs[i]._id

\* GET /api/content
get_content(docs) ==
    IF FindLatest(docs) = 0
    THEN [intro |-> generate_intro("Votre Nom", "Votre métier", "Votre ville"),
          faq |-> generate_faq("", "", "", "Lun-Ven 9h-18h"),
          services |-> generate_service_descriptions(
                           <<"Consultation", "Accompagnement", "Séance">>)]
    ELSE LET biz == docs[FindLatest(docs)] IN
         [intro |-> biz.intro_paragraph,
          faq |-> biz.faq,
          services |-> biz.service_descriptions,
          horaires |-> biz.horaires,
          localisation |-> biz.localisation,
          metier |-> biz.metier,
          owner |-> biz.owner_name]

GetContent ==
    /\ resp' = Response("getContent", 200, <<>>, get_content(business))
    /\ UNCHANGED <<request, request_log, business, now, pc, call>>

-----------------------------------------------------------------------------
(* Assistant *)

\* next(..., None) that found nothing
NoneReply == <<None>>

\* not reply
Falsy(reply) == reply = NoneReply \/ \A i \in 1..Len(reply) : reply[i] = ""

\* dict.get(key, default)
DictGet(d, key, default) == IF key \in DOMAIN d THEN d[key] ELSE default

\* next((f["a"] for f in faq if P(f)), None)
FirstAnswer(faq, P(_)) ==
    IF \E i \in 1..Len(faq) : P(faq[i])
    THEN faq[CHOOSE i \in 1..Len(faq) :
                 P(faq[i]) /\ \A j \in 1..(i - 1) : ~P(faq[j])].a
    ELSE NoneReply

IsHoursEntry(f) == In("horaire", <<Lower(f.q)>>)

IsLocationEntry(f) == In("où", <<Lower(f.q)>>) \/ In("situ", LowerText(f.a))

PricingReply ==
    <<"Nos tarifs varient selon le service. Dites-moi le service souhaité et je vous oriente.">>

\* the FAQ lookup loop: the first entry decides and breaks
FaqReply(content, text) ==
    LET faq == DictGet(content, "faq", <<>>) IN
    IF faq = <<>> THEN NoneReply
    ELSE IF AnyIn({"horaire", "heures", "ouvert"}, text)
    THEN FirstAnswer(faq, IsHoursEntry)
    ELSE IF AnyIn({"prix", "tarif"}, text)
    THEN PricingReply
    ELSE IF AnyIn({"où", "adresse", "localisation", "lieu"}, text)
    THEN FirstAnswer(faq, IsLocationEntry)
    ELSE NoneReply

\* the service suggestion
ServiceReply(content, text, reply) ==
    LET sv == DictGet(content, "services", <<>>)
        services == [i \in 1..Len(sv) |-> sv[i].title]
    IN
    IF Falsy(reply) /\ AnyIn({"service", "choisir", "conseil"}, text)
    THEN <<"Voici nos services: ">> \o Join(services, ", ") \o <<". Quel vous intéresse ?">>
    ELSE reply

\* the greeting of last resort
GreetingReply(content, reply) ==
    IF Falsy(reply)
    THEN DictGet(content, "assistant", << <<"Je suis là pour vous aider !">> >>)[1]
    ELSE reply

\* the reply of the assistant to a message under a content
AssistantReply(content, message) ==
    LET text == LowerText(<<message>>) IN
    GreetingReply(content, ServiceReply(content, text, FaqReply(content, text)))

\* a contact test that forgets the phone
ContactWithoutPhone(name, email, phone) == Truthy(name) /\ Truthy(email)

\* the contact test that decides whether a lead is created
ContactProvided(name, email, phone) == Truthy(name) /\ Truthy(email) /\ Truthy(phone)

\* the lead built from a chat message
LeadOf(message, name, email, phone) ==
    RequestSchema(name, email, phone, None, message, "Nouveau", NoTime)

\* POST /api/assistant
assistant(message, name, email, phone) ==
    LET in == [message |-> message, name |-> name, email |-> email, phone |-> phone]
        reply == AssistantReply(get_content(business), message)
    IN
    IF email # None /\ ~IsEmail(email)
    THEN /\ resp' = Response("assistant", 422, in,
                             [reply |-> NoneReply, created_request_id |-> <<>>])
         /\ UNCHANGED request
    ELSE IF ContactProvided(name, email, phone)
    THEN /\ ~StoreFull
         /\ request' = InsertOne(request, LeadOf(message, name, email, phone))
         /\ resp' = Response("assistant", 200, in,
                             [reply |-> reply,
                              created_request_id |-> create_document(request)])
    ELSE /\ resp' = Response("assistant", 200, in,
                             [reply |-> reply, created_request_id |-> <<>>])
         /\ UNCHANGED request

\* messages of visitors asking questions
Messages ==
    {"bonjour", "Quels sont vos HORAIRES ?", "horaires, tarif, adresse et services ?",
     "tarif et adresse ?", "où êtes-vous ?", "votre adresse et vos services ?",
     "quels services ?"}

\* a visitor chatting, with or without full contact details
AssistantChat ==
    /\ \E message \in Messages,
          contact \in {<<None, None, None>>, <<"Tom", "tom@x.com", "0600000000">>,
                       <<"Tom", "pas-un-email", "0600000000">>} :
            assistant(message, contact[1], contact[2], contact[3])
    /\ UNCHANGED <<request_log, business, now, pc, call>>

\* a visitor leaving contact details, complete or not
AssistantLead ==
    /\ \E message \in {"Quels sont vos HORAIRES ?"},
          name \in {None, "", "Tom"},
          email \in {None, "tom@x.com", "pas-un-email"},
          phone \in {None, "", "0600000000"} :
            assistant(message, name, email, phone)
    /\ UNCHANGED <<request_log, business, now, pc, call>>

-----------------------------------------------------------------------------
(* Specifications *)

NoResponse == Response("none", 0, <<>>, <<>>)

Init ==
    /\ request = <<>>
    /\ request_log = <<>>
    /\ business = <<>>
    /\ now = 0
    /\ resp = NoResponse
    /\ pc = [c \in Calls |-> "idle"]
    /\ call = [c \in Calls |-> NoCall]

Next ==
    \/ CreateRequest
    \/ SetStatus
    \/ AssistantLead

Spec == Init /\ [][Next]_vars

NextConc ==
    \/ CreateLead
    \/ \E c \in Calls : Begin(c)
    \/ \E c \in Calls : Update(c)
    \/ \E c \in Calls : Insert(c)

SpecConc == Init /\ [][NextConc]_vars

NextContent ==
    \/ Onboarding
    \/ AssistantChat
    \/ GetContent

SpecContent == Init /\ [][NextContent]_vars

-----------------------------------------------------------------------------
(* Properties of the request life cycle *)

\* the request the id string names, as the store holds it (0 when none does)
Named(docs, req_id) ==
    IF \E i \in 1..Len(docs) : ObjectIdStr(docs[i]._id) = req_id
    THEN CHOOSE i \in 1..Len(docs) : ObjectIdStr(docs[i]._id) = req_id
    ELSE 0

SetStatusOk == resp.op = "setStatus" /\ resp.code = 200

\* C1: every persisted Request has a status among "Nouveau", "Confirmé",
\* "Annulé", whatever createRequest, assistant and setStatus calls were made.
C1_StatusAlwaysLegal ==
    \A i \in 1..Len(request) : request[i].status \in LegalStatuses

\* C2: a setStatus(id, s) call that succeeds appends exactly one entry to the
\* history of request id, that entry carries s, and the number of history
\* entries of every other request is unchanged.
C2_SetStatusAppendsOne ==
    [][ (resp'.op = "setStatus" /\ resp'.code = 200) =>
          LET oid == request[Named(request, resp'.in.id)]._id
              before == get_history(request_log, oid)
              after == get_history(request_log', oid)
          IN /\ Named(request, resp'.in.id) # 0
             /\ Len(after) = Len(before) + 1
             /\ SubSeq(after, 1, Len(before)) = before
             /\ after[Len(after)].status = resp'.in.status
             /\ after[Len(after)].request_id = oid
             /\ \A i \in 1..Len(request) :
                  request[i]._id # oid =>
                    Len(get_history(request_log', request[i]._id))
                      = Len(get_history(request_log, request[i]._id)) ]_vars

\* a successful setStatus on a request that already had history, with another
\* request in the store
C2_Witness ==
    /\ SetStatusOk
    /\ Len(get_history(request_log, ParseObjectId(resp.in.id))) = 2

\* C3: setStatus fails with InvalidArgument (400) whenever the status is not
\* one of the three, for every id; it fails with NotFound (404) when the
\* status is legal and no request matches the id; a failing call changes no
\* request and appends no history entry.
C3_FailingSetStatus ==
    [][ resp'.op = "setStatus" =>
          /\ resp'.in.status \notin LegalStatuses => resp'.code = 400
          /\ (resp'.in.status \in LegalStatuses /\ Named(request, resp'.in.id) = 0)
                => resp'.code = 404
          /\ resp'.code # 200 => UNCHANGED <<request, request_log>> ]_vars

\* C4: the request a createRequest call persists has status "Nouveau" and the
\* server's creation time, whatever the payload carries, and a request leaves
\* "Nouveau" only by a successful setStatus on its id.
C4_CreatedAsNouveau ==
    [][ /\ (resp'.op = "createRequest" /\ resp'.code = 200) =>
              /\ Len(request') = Len(request) + 1
              /\ request'[Len(request')].status = "Nouveau"
              /\ request'[Len(request')].created_at = DateTime(now)
        /\ \A i \in 1..Len(request) :
              (request[i].status = "Nouveau" /\ request'[i].status # "Nouveau") =>
                 /\ resp'.op = "setStatus" /\ resp'.code = 200
                 /\ resp'.in.id = ObjectIdStr(request[i]._id) ]_vars

\* C5: an assistant call creates a lead exactly when the message carries a
\* non-empty name, an email and a non-empty phone; then one request is added,
\* with status "Nouveau" and the message text as sent, and getRequest on the
\* returned created_request_id finds it; otherwise nothing is created and
\* created_request_id is null.
C5_AssistantCreatesLead ==
    [][ resp'.op = "assistant" =>
          IF /\ resp'.code = 200
             /\ resp'.in.name \notin {None, ""}
             /\ resp'.in.email # None
             /\ resp'.in.phone \notin {None, ""}
          THEN LET got == get_request(request', resp'.out.created_request_id) IN
               /\ Len(request') = Len(request) + 1
               /\ SubSeq(request', 1, Len(request)) = request
               /\ request'[Len(request')].status = "Nouveau"
               /\ request'[Len(request')].message = resp'.in.message
               /\ got.found
               /\ got.doc[1].id = ObjectIdStr(request'[Len(request')]._id)
               /\ got.doc[1].status = "Nouveau"
               /\ got.doc[1].message = resp'.in.message
          ELSE /\ request' = request
               /\ resp'.out.created_request_id = <<>> ]_vars

\* the same visitor sent the same message twice and two leads exist
C5_Witness ==
    /\ resp.op = "assistant" /\ resp.code = 200
    /\ Len(request) >= 2
    /\ resp.out.created_request_id = ObjectIdStr(request[Len(request)]._id)
    /\ request[Len(request)].message = "Quels sont vos HORAIRES ?"
    /\ request[Len(request) - 1].message = request[Len(request)].message
    /\ request[Len(request) - 1].email = request[Len(request)].email

\* C10: with calls running one at a time, a request that has history entries
\* has the status of its most recent entry, and every history entry refers to
\* a request that exists.
C10_StatusMatchesHistory ==
    /\ \A i \in 1..Len(request) :
         LET h == get_history(request_log, request[i]._id) IN
         h # <<>> => request[i].status = h[Len(h)].status
    /\ \A k \in 1..Len(request_log) :
         \E i \in 1..Len(request) : request[i]._id = request_log[k].request_id

\* a request whose status was set twice, to two different values
C10_Witness ==
    \E i \in 1..Len(request) :
        LET h == get_history(request_log, request[i]._id) IN
        /\ Len(h) = 2
        /\ h[1].status # h[2].status
        /\ request[i].status = "Annulé"

-----------------------------------------------------------------------------
(* Properties of concurrent status updates *)

C8_State ==
    \A c, d \in Calls :
        (/\ c # d
         /\ pc[c] = "done" /\ pc[d] = "done"
         /\ call[c].code = 200 /\ call[d].code = 200
         /\ call[c].id = call[d].id) =>
            LET i == Named(request, call[c].id)
                h == get_history(request_log, request[i]._id)
                later == IF call[c].updated_at[1] > call[d].updated_at[1] THEN c ELSE d
            IN /\ i # 0
               /\ Len(h) = 2
               /\ \/ h[1].status = call[c].status /\ h[2].status = call[d].status
                  \/ h[1].status = call[d].status /\ h[2].status = call[c].status
               /\ request[i].status = call[later].status

C8_Step ==
    \A c \in Calls :
        /\ (pc[c] = "idle" /\ pc'[c] # "idle" /\ call'[c].status \in LegalStatuses)
              => pc'[c] = "update"
        /\ (pc[c] = "update" /\ pc'[c] # "update" /\ Named(request, call[c].id) # 0)
              => /\ pc'[c] = "insert"
                 /\ request'[Named(request, call[c].id)].status = call[c].status
        /\ (pc[c] = "insert" /\ pc'[c] # "insert")
              => /\ pc'[c] = "done" /\ call'[c].code = 200
                 /\ Len(request_log') = Len(request_log) + 1
                 /\ request_log'[Len(request_log')].status = call[c].status
                 /\ ObjectIdStr(request_log'[Len(request_log')].request_id) = call[c].id

\* C8: two concurrent setStatus calls with legal statuses on the same existing
\* request cannot fail, each appends exactly one history entry with its own
\* status, and the request ends with the status of the write that reached the
\* store last, in every interleaving of their store steps.
C8_ConcurrentSetStatus == []C8_State /\ [][C8_Step]_vars

\* both calls are done and the latest history entry is not the final status
C8_Witness ==
    /\ pc["A"] = "done" /\ pc["B"] = "done"
    /\ call["A"].code = 200 /\ call["B"].code = 200
    /\ call["A"].id = call["B"].id
    /\ call["A"].status # call["B"].status
    /\ LET i == Named(request, call["A"].id)
           h == get_history(request_log, request[i]._id)
       IN h[Len(h)].status # request[i].status

-----------------------------------------------------------------------------
(* Properties of the content and of the assistant *)

Asked(keys, message) == AnyIn(keys, LowerText(<<message>>))

HoursAsked(m) == Asked({"horaire", "heures", "ouvert"}, m)

PricingAsked(m) == Asked({"prix", "tarif"}, m)

LocationAsked(m) == Asked({"où", "adresse", "localisation", "lieu"}, m)

ServiceAsked(m) == Asked({"service", "choisir", "conseil"}, m)

\* the answer the content gives to the question q
AnswerTo(content, q) ==
    content.faq[CHOOSE i \in 1..Len(content.faq) : content.faq[i].q = q].a

ServiceList(content) ==
    <<"Voici nos services: ">>
        \o Join([i \in 1..Len(content.services) |-> content.services[i].title], ", ")
        \o <<". Quel vous intéresse ?">>

AssistantAnswered == resp.op = "assistant" /\ resp.code = 200

\* C6: the reply is chosen first-match-wins in the order hours, pricing,
\* location, service list: the hours answer of the current content when an
\* hours keyword is present, else the pricing text when a pricing keyword is,
\* else the location answer of the current content when a location keyword
\* is; the service list only when none of these applied and a service keyword
\* is present.
C6_ReplyPriority ==
    AssistantAnswered =>
        LET content == get_content(business)
            m == resp.in.message
            reply == resp.out.reply
        IN /\ HoursAsked(m) => reply = AnswerTo(content, "Quels sont vos horaires ?")
           /\ (~HoursAsked(m) /\ PricingAsked(m)) => reply = PricingReply
           /\ (~HoursAsked(m) /\ ~PricingAsked(m) /\ LocationAsked(m))
                 => reply = AnswerTo(content, "Où êtes-vous situé ?")
           /\ reply = ServiceList(content)
                 => (~HoursAsked(m) /\ ~PricingAsked(m) /\ ~LocationAsked(m)
                     /\ ServiceAsked(m))

\* C7: when no keyword branch replied and a profile has been onboarded, the
\* reply is the first assistant greeting of the current profile; the literal
\* fallback is used only when there is no content.
C7_GreetingFromProfile ==
    (/\ AssistantAnswered
     /\ ~HoursAsked(resp.in.message) /\ ~PricingAsked(resp.in.message)
     /\ ~LocationAsked(resp.in.message) /\ ~ServiceAsked(resp.in.message)) =>
        /\ business # <<>> =>
              resp.out.reply = business[Len(business)].assistant_responses[1]
        /\ resp.out.reply = <<"Je suis là pour vous aider !">> => business = <<>>

\* the content generated from the inputs of an onboard call
Generated(in) ==
    [intro |-> generate_intro(in.nom, in.metier, in.localisation),
     faq |-> generate_faq(in.nom, in.metier, in.localisation, in.horaires),
     services |-> generate_service_descriptions(in.services)]

\* the intro, FAQ and service descriptions getContent returns
Shown(docs) ==
    LET c == get_content(docs) IN
    [intro |-> c.intro, faq |-> c.faq, services |-> c.services]

C9_State ==
    business = <<>> =>
        Shown(business) =
            [intro |-> generate_intro("Votre Nom", "Votre métier", "Votre ville"),
             faq |-> generate_faq("", "", "", "Lun-Ven 9h-18h"),
             services |-> generate_service_descriptions(
                              <<"Consultation", "Accompagnement", "Séance">>)]

C9_Step ==
    /\ Len(business') >= Len(business)
    /\ SubSeq(business', 1, Len(business)) = business
    /\ IF business' # business
       THEN resp'.op = "onboard" /\ Shown(business') = Generated(resp'.in)
       ELSE Shown(business') = Shown(business)

====
